---- MODULE Spec2Model ----
(***************************************************************************)
(* Model of fancy_subprocess.run() (src/fancy_subprocess/_run_core.py):    *)
(* one invocation of run(), its retry loop, attempt_run() with the bounded *)
(* output buffer and the exit-code classification, and the RunError        *)
(* accessors.  Text is a sequence of one-character strings.                *)
(***************************************************************************)
EXTENDS Integers, Sequences, FiniteSets, TLC

(* ---------------------------- bounds ----------------------------------- *)
MaxRetry == 3
MaxOutputSize == 3
MaxLines == 2

(* ----------------------------- integers -------------------------------- *)
(* A Python int is unbounded and an exit code of win32 is an unsigned      *)
(* 32-bit word, so an exit code n is kept as the pair <<hi, lo>> with      *)
(* n = hi * 65536 + lo and 0 <= lo < 65536.                                *)
PyInt(n) == <<n \div 65536, n % 65536>>

(* -exit_code *)
Negated(w) == IF w[2] = 0 THEN <<-w[1], 0>> ELSE <<-w[1] - 1, 65536 - w[2]>>

(* ------------------------ input alphabets ------------------------------ *)
NL == "\n"
ExitCodes == {PyInt(0), PyInt(1)}
(* pairs of retry_initial_sleep_seconds and retry_backoff *)
SleepArgs == {<<10, 2>>, <<3, 3>>}
cmd == <<"prog", "an arg">>

(* what proc.stdout.readline() can return before end-of-stream: a line     *)
(* with its newline, or (only as the very last line) a non-empty line      *)
(* without one                                                             *)
TerminatedLines == {<<NL>>, <<"a", NL>>, <<"b", NL>>, <<"a", "b", NL>>}
UnterminatedLines == {<<"b">>}

(* ------------------------ Python primitives ---------------------------- *)
Max(a, b) == IF a >= b THEN a ELSE b
Min(a, b) == IF a <= b THEN a ELSE b

(* a strip that leaves the newline in place *)
removesuffix_kept(s) == s

(* str.removesuffix('\n') *)
removesuffix(s) ==
    IF Len(s) > 0 /\ s[Len(s)] = NL THEN SubSeq(s, 1, Len(s) - 1) ELSE s

(* a slice that keeps the head instead of the tail: s[:-start] *)
SliceFrom_head(s, start) ==
    SubSeq(s, 1, Min(Len(s), IF start < 0 THEN -start ELSE Len(s) - start))

(* s[start:] with Python's treatment of a negative or out-of-range start *)
SliceFrom(s, start) ==
    LET i == IF start < 0 THEN Max(Len(s) + start, 0) ELSE Min(start, Len(s))
    IN  SubSeq(s, i + 1, Len(s))

(* the range with its stop off by one: list(range(start, -1, -1)) *)
RECURSIVE range_inclusive(_)
range_inclusive(start) ==
    IF start < 0 THEN << >> ELSE <<start>> \o range_inclusive(start - 1)

(* list(range(start, 0, -1)) *)
RECURSIVE range(_)
range(start) ==
    IF start <= 0 THEN << >> ELSE <<start>> \o range(start - 1)

(* --------------------------- data types -------------------------------- *)
RunResult(code, out) == [type |-> "RunResult", exit_code |-> code, output |-> out]

(* an exception object raised by the platform or by a sink; id tells       *)
(* objects apart.  FileNotFoundError and BrokenPipeError are subclasses of *)
(* OSError; ValueError and its subclass UnicodeDecodeError are not.        *)
Exception(cls, n) == [type |-> cls, id |-> n]

OSErrorClasses == {"FileNotFoundError", "BrokenPipeError"}

(* isinstance(x, OSError) *)
IsOSError(x) == x.type \in OSErrorClasses

(* RunError(cmd=cmd, result=result); id is the object's identity *)
RunError(c, res, n) == [type |-> "RunError", cmd |-> c, result |-> res, id |-> n]

ValueError == "ValueError"

completed(e) == e.result.type = "RunResult"

(* an accessor that answers 0 when there is no RunResult *)
exit_code_default(e) ==
    [raises |-> "",
     value |-> IF e.result.type = "RunResult" THEN e.result.exit_code ELSE PyInt(0)]

exit_code(e) ==
    IF e.result.type = "RunResult"
    THEN [raises |-> "", value |-> e.result.exit_code]
    ELSE [raises |-> ValueError, value |-> PyInt(0)]

RunError_output(e) ==
    IF e.result.type = "RunResult"
    THEN [raises |-> "", value |-> e.result.output]
    ELSE [raises |-> ValueError, value |-> << >>]

oserror(e) ==
    IF IsOSError(e.result)
    THEN [raises |-> "", value |-> e.result]
    ELSE [raises |-> ValueError, value |-> Exception("", 0)]

(* --------------------------- success policy ---------------------------- *)
None == [kind |-> "None", codes |-> {}]
ANY_EXIT_CODE == [kind |-> "AnyExitCode", codes |-> {}]
ExitCodeList(S) == [kind |-> "list", codes |-> S]

(* a default that also puts 0 into a list the caller gave *)
DefaultSuccess_adds_zero(s) ==
    IF s = None THEN ExitCodeList({PyInt(0)})
    ELSE IF s.kind = "list" THEN ExitCodeList(s.codes \cup {PyInt(0)}) ELSE s

(* if success is None: success = [0] *)
DefaultSuccess(s) == IF s = None THEN ExitCodeList({PyInt(0)}) ELSE s

(* a classifier without the AnyExitCode test *)
IsSuccess_list_only(code, s) == code \in s.codes

(* isinstance(success, AnyExitCode) or result.exit_code in success *)
IsSuccess(code, s) == s.kind = "AnyExitCode" \/ code \in s.codes

(* --------------------------- output buffer ----------------------------- *)
(* a buffer cut to max_output_size characters, newline included *)
AppendLine_tight(out, line, max) ==
    LET grown == out \o line \o <<NL>>
    IN  IF Len(grown) > max THEN SubSeq(grown, Len(grown) - max + 1, Len(grown))
        ELSE grown

(* output += line + '\n'; if len(output)>max_output_size+1: output = ...   *)
AppendLine(out, line, max) ==
    LET grown == out \o line \o <<NL>>
    IN  IF Len(grown) > max + 1 THEN SliceFrom(grown, -max - 1) ELSE grown

(* --------------------------- environment ------------------------------- *)
VARIABLE sys_platform             \* sys.platform: "linux" or "win32"
VARIABLE exit_codes               \* the exit codes the command can end with

(* names and values of environment variables *)
EnvNames == {"A", "a"}
EnvValues == {"1", "2"}

(* str.upper() on a name *)
upper(name) == IF name = "a" THEN "A" ELSE name

(* a dict is a function from its keys; d[key] = value *)
DictSet(d, key, value) ==
    [k \in DOMAIN d \cup {key} |-> IF k = key THEN value ELSE d[k]]

(* dict.update(items), items being (key, value) pairs in order *)
RECURSIVE DictUpdate(_, _)
DictUpdate(d, items) ==
    IF items = << >> THEN d
    ELSE DictUpdate(DictSet(d, items[1][1], items[1][2]), Tail(items))

(* ((key.upper(), value) for key,value in env_overrides.items()) *)
UpperKeys(items) == [i \in DOMAIN items |-> <<upper(items[i][1]), items[i][2]>>]

(* env_overrides: None, or a mapping given by its items in order *)
NoOverrides == [given |-> FALSE, items |-> << >>]
Overrides(items) == [given |-> TRUE, items |-> items]

(* an environment that is os.environ itself, not a copy of it *)
BuildEnv_aliased(platform, environ, overrides) ==
    LET merged == IF ~overrides.given THEN environ
                  ELSE IF platform = "win32"
                       THEN DictUpdate(environ, UpperKeys(overrides.items))
                       ELSE DictUpdate(environ, overrides.items)
    IN  [env |-> merged, os_environ |-> merged, env_overrides |-> overrides]

(* lines 154-159: env = dict(os.environ), then env.update(...); the result *)
(* is env together with what os.environ and env_overrides are afterwards   *)
BuildEnv(platform, environ, overrides) ==
    LET copy == environ
        merged == IF ~overrides.given THEN copy
                  ELSE IF platform = "win32"
                       THEN DictUpdate(copy, UpperKeys(overrides.items))
                       ELSE DictUpdate(copy, overrides.items)
    IN  [env |-> merged, os_environ |-> environ, env_overrides |-> overrides]

(* ----------------------- exit-status decoding -------------------------- *)
(* signal.Signals on Linux: the names of signals 1..31, the aliases        *)
(* (SIGIOT, SIGPOLL, SIGCLD) left out as Signals(n).name leaves them out   *)
SignalNames ==
    <<"SIGHUP", "SIGINT", "SIGQUIT", "SIGILL", "SIGTRAP", "SIGABRT", "SIGBUS",
      "SIGFPE", "SIGKILL", "SIGUSR1", "SIGSEGV", "SIGUSR2", "SIGPIPE", "SIGALRM",
      "SIGTERM", "SIGSTKFLT", "SIGCHLD", "SIGCONT", "SIGSTOP", "SIGTSTP",
      "SIGTTIN", "SIGTTOU", "SIGURG", "SIGXCPU", "SIGXFSZ", "SIGVTALRM",
      "SIGPROF", "SIGWINCH", "SIGIO", "SIGPWR", "SIGSYS">>

(* signal.Signals(n).name, "" standing for the ValueError of an unknown n *)
SignalName(n) ==
    IF n[1] # 0 THEN ""
    ELSE IF n[2] \in DOMAIN SignalNames THEN SignalNames[n[2]]
    ELSE IF n[2] = 34 THEN "SIGRTMIN"
    ELSE IF n[2] = 64 THEN "SIGRTMAX"
    ELSE ""

(* ThirtyTwoBits(exit_code) raises ValueError unless                       *)
(* -2**31 <= exit_code < 2**32                                             *)
ThirtyTwoBits(w) == -32768 <= w[1] /\ w[1] <= 65535

(* bits.unsigned_value: the word read as an unsigned number *)
unsigned_value(w) == <<w[1] % 65536, w[2]>>

(* NtStatus(bits).name for some of the values the enumeration has, "" *)
(* standing for the ValueError of a value it has not                  *)
NtStatusName(u) ==
    CASE u = <<0, 0>> -> "STATUS_SUCCESS"
      [] u = <<0, 259>> -> "STATUS_PENDING"
      [] u = <<16384, 0>> -> "STATUS_OBJECT_NAME_EXISTS"
      [] u = <<32768, 3>> -> "STATUS_BREAKPOINT"
      [] u = <<49152, 5>> -> "STATUS_ACCESS_VIOLATION"
      [] u = <<49152, 314>> -> "STATUS_CONTROL_C_EXIT"
      [] OTHER -> ""

STATUS_SEVERITY_SUCCESS == "STATUS_SEVERITY_SUCCESS"

(* a severity read from bits 29 and 28 instead of 31 and 30 *)
severity_low_bits(u) ==
    <<"STATUS_SEVERITY_SUCCESS", "STATUS_SEVERITY_INFORMATIONAL",
      "STATUS_SEVERITY_WARNING", "STATUS_SEVERITY_ERROR">>[((u[1] \div 4096) % 4) + 1]

(* NtStatus.severity: the two highest bits of the word *)
severity(u) ==
    <<"STATUS_SEVERITY_SUCCESS", "STATUS_SEVERITY_INFORMATIONAL",
      "STATUS_SEVERITY_WARNING", "STATUS_SEVERITY_ERROR">>[(u[1] \div 16384) + 1]

HexDigits == <<"0", "1", "2", "3", "4", "5", "6", "7", "8", "9",
               "A", "B", "C", "D", "E", "F">>

(* format(n, 'X') of 0 <= n < 65536 *)
RECURSIVE Hex(_)
Hex(n) == IF n < 16 THEN <<HexDigits[n + 1]>>
          ELSE Hex(n \div 16) \o <<HexDigits[(n % 16) + 1]>>

(* the fill of a format specification: zeros in front up to the width *)
ZeroFill(digits, width) ==
    IF Len(digits) >= width THEN digits
    ELSE [i \in 1..(width - Len(digits)) |-> "0"] \o digits

(* f'0x{u:08X}' of an unsigned word *)
Format08X(u) ==
    <<"0x">> \o ZeroFill(IF u[1] = 0 THEN Hex(u[2])
                         ELSE Hex(u[1]) \o ZeroFill(Hex(u[2]), 4), 8)

(* a decoder that looks up the signal of exit_code instead of -exit_code *)
stringify_exit_code_unnegated(code) ==
    IF sys_platform = "win32"
    THEN IF ~ThirtyTwoBits(code) THEN << >>
         ELSE LET bits == unsigned_value(code)
              IN  IF NtStatusName(bits) # "" /\ severity(bits) # STATUS_SEVERITY_SUCCESS
                  THEN <<NtStatusName(bits)>>
                  ELSE Format08X(bits)
    ELSE IF code[1] < 0
         THEN IF SignalName(code) # ""
              THEN <<SignalName(code)>>
              ELSE <<"unknown signal">>
         ELSE << >>

(* stringify_exit_code(); its result is a text in pieces, << >> is None *)
stringify_exit_code(code) ==
    IF sys_platform = "win32"
    THEN IF ~ThirtyTwoBits(code) THEN << >>
         ELSE LET bits == unsigned_value(code)
              IN  IF NtStatusName(bits) # "" /\ severity(bits) # STATUS_SEVERITY_SUCCESS
                  THEN <<NtStatusName(bits)>>
                  ELSE Format08X(bits)
    ELSE IF code[1] < 0
         THEN IF SignalName(Negated(code)) # ""
              THEN <<SignalName(Negated(code))>>
              ELSE <<"unknown signal">>
         ELSE << >>

(* --------------------------- messages ---------------------------------- *)
(* arguments that a shell would split or interpret *)
UnsafeArgs == {"an arg"}

(* oslex.quote(): shlex.quote on POSIX, mslex.quote on win32 *)
quote(arg) ==
    IF arg \notin UnsafeArgs THEN <<arg>>
    ELSE IF sys_platform = "win32" THEN <<"\"", arg, "\"">>
    ELSE <<"'", arg, "'">>

(* oslex_join(cmd): the quoted arguments with a space between them *)
RECURSIVE oslex_join(_)
oslex_join(c) ==
    IF c = << >> THEN << >>
    ELSE IF Len(c) = 1 THEN quote(c[1])
    ELSE quote(c[1]) \o <<" ">> \o oslex_join(Tail(c))

(* str() of an OSError of the platform *)
OSErrorText(x) ==
    IF x.type = "FileNotFoundError" THEN "[Errno 2] No such file or directory"
    ELSE "[Errno 32] Broken pipe"

(* a comment that is written whether or not there is a label *)
exit_code_comment_always(exit_code_str) == <<" (">> \o exit_code_str \o <<")">>

(* f' ({exit_code_str})' if exit_code_str is not None, else '' *)
exit_code_comment(exit_code_str) ==
    IF exit_code_str # << >> THEN <<" (">> \o exit_code_str \o <<")">> ELSE << >>

(* RunError.message: the fixed words of the f-string and what fills its    *)
(* fields                                                                  *)
message(e) ==
    IF e.result.type = "RunResult"
    THEN [kind |-> "Command failed with exit code",
          exit_code |-> e.result.exit_code,
          comment |-> exit_code_comment(stringify_exit_code(e.result.exit_code)),
          cmd |-> oslex_join(e.cmd)]
    ELSE [kind |-> "Exception was raised while trying to run command",
          exception |-> e.result.type,
          text |-> OSErrorText(e.result),
          cmd |-> oslex_join(e.cmd)]

(* RunError.__str__ *)
str(e) == message(e)

(* a notice that counts the attempts without the one about to start *)
RetryNotice_short(seconds, left) ==
    [kind |-> "Retrying in",
     seconds |-> seconds,
     attempts_left |-> left - 1,
     plural |-> IF left - 1 # 1 THEN "s" ELSE ""]

(* f'Retrying in {sleep_seconds} seconds ({attempts_left} attempt{plural} left)...' *)
RetryNotice(seconds, left) ==
    [kind |-> "Retrying in",
     seconds |-> seconds,
     attempts_left |-> left,
     plural |-> IF left # 1 THEN "s" ELSE ""]

(* the description printed before every attempt *)
Description == [kind |-> "Running command", cmd |-> oslex_join(cmd)]

(* ------------------------------ state ---------------------------------- *)
VARIABLES
    success_given,                \* argument success as the caller passed it
    success,                      \* parameter of run(), rebound to the default
    max_output_size,              \* argument
    retry,                        \* argument
    retry_initial_sleep_seconds,  \* argument
    retry_backoff,                \* argument
    pc,                           \* position of the caller / of run()
    sleep_seconds,                \* local of run()
    iter,                         \* values the for loop has still to produce
    attempts_left,                \* loop variable of run()
    guarded,                      \* the current attempt is the one inside try
    output,                       \* local of attempt_run(): the buffer
    proc,                         \* child process: "none", "running", "exited"
    returncode,                   \* proc.returncode as read once the stream ended; << >> is None
    exc,                          \* exception in flight inside run()
    returned,                     \* value run() returned to the caller
    raised,                       \* exception run() raised to the caller
    accessed,                     \* what the caller read from the RunError
    messages,                     \* calls of print_message, in order
    printed,                      \* calls of print_output in this attempt
    full,                         \* all text appended in this attempt
    stream_ended,                 \* the last line read had no newline
    attempts,                     \* number of attempt_run() calls so far
    outcomes,                     \* how each finished attempt ended
    sleeps,                       \* durations of time.sleep(), in order
    sleep_at,                     \* how many messages were printed when each sleep began
    lines_read,                   \* lines read in the whole invocation
    os_environ,                   \* os.environ of the calling process
    env_overrides,                \* argument
    env,                          \* local of run(): the child's environment
    child_envs                    \* the env of every Popen call that started a child

params == <<success_given, max_output_size, retry, retry_initial_sleep_seconds,
            retry_backoff, sys_platform, exit_codes>>
environment == <<os_environ, env_overrides, env>>
loopvars == <<sleep_seconds, iter, attempts_left>>
caller == <<returned, raised, accessed>>
vars == <<success, params, pc, loopvars, guarded, output, proc, returncode, exc, caller,
          messages, printed, full, stream_ended, attempts, outcomes, sleeps,
          sleep_at, lines_read, environment, child_envs>>

NoResult == RunResult(PyInt(0), << >>)
NoException == Exception("", 0)
NoAccess == [completed |-> FALSE,
             exit_code |-> [raises |-> "", value |-> PyInt(0)],
             output |-> [raises |-> "", value |-> << >>],
             oserror |-> [raises |-> "", value |-> NoException],
             message |-> << >>,
             str |-> << >>]

SuccessArgs == {None, ANY_EXIT_CODE, ExitCodeList({PyInt(1)}),
                ExitCodeList({PyInt(0), PyInt(1)})}

(* a dict with the given keys *)
Dicts(keys) == UNION {[K -> EnvValues] : K \in SUBSET keys}

(* os.environ: on win32 its keys are upper case *)
Environs(platform) ==
    IF platform = "win32" THEN Dicts({upper(n) : n \in EnvNames}) ELSE Dicts(EnvNames)

(* the items of a mapping: at most two, with distinct keys *)
OverrideItems ==
    {<< >>}
    \cup {<<<<k, v>>>> : k \in EnvNames, v \in EnvValues}
    \cup {<<<<"a", p[1]>>, <<"A", p[2]>>>> :
             p \in {q \in EnvValues \X EnvValues : q[1] # q[2]}}
    \cup {<<<<"A", p[1]>>, <<"a", p[2]>>>> :
             p \in {q \in EnvValues \X EnvValues : q[1] # q[2]}}

OverrideArgs == {NoOverrides} \cup {Overrides(items) : items \in OverrideItems}

(* the locals of run() and the observations before the call *)
InitLocals ==
    /\ success = success_given
    /\ pc = "call"
    /\ sleep_seconds = 0
    /\ iter = << >>
    /\ attempts_left = 0
    /\ guarded = FALSE
    /\ output = << >>
    /\ proc = "none"
    /\ returncode = << >>
    /\ exc = NoException
    /\ returned = NoResult
    /\ raised = NoException
    /\ accessed = NoAccess
    /\ messages = << >>
    /\ printed = << >>
    /\ full = << >>
    /\ stream_ended = FALSE
    /\ attempts = 0
    /\ outcomes = << >>
    /\ sleeps = << >>
    /\ sleep_at = << >>
    /\ lines_read = 0
    /\ env = << >>
    /\ child_envs = {}

(* a call of run() on POSIX with the environment left alone *)
Init ==
    /\ success_given \in SuccessArgs
    /\ max_output_size \in 0..MaxOutputSize
    /\ retry \in -1..MaxRetry
    /\ \E a \in SleepArgs :
          /\ retry_initial_sleep_seconds = a[1]
          /\ retry_backoff = a[2]
    /\ sys_platform = "linux"
    /\ exit_codes = ExitCodes
    /\ os_environ = [n \in {"A"} |-> "1"]
    /\ env_overrides = NoOverrides
    /\ InitLocals

(* a call of run() with one retry, on either platform, with any            *)
(* environment and any overrides                                           *)
InitEnv ==
    /\ success_given = None
    /\ max_output_size = 1
    /\ retry = 1
    /\ retry_initial_sleep_seconds = 10
    /\ retry_backoff = 2
    /\ sys_platform \in {"linux", "win32"}
    /\ exit_codes = ExitCodes
    /\ os_environ \in Environs(sys_platform)
    /\ env_overrides \in OverrideArgs
    /\ InitLocals

(* exit codes of both signs, inside and outside of 32 bits: signals known  *)
(* and unknown, statuses of every severity in and out of the table         *)
DecodedCodes ==
    {PyInt(0), PyInt(1), PyInt(259), PyInt(-9), PyInt(-11), PyInt(-15), PyInt(-33),
     PyInt(-64), PyInt(-65), PyInt(-65536), PyInt(-1073741819),
     <<16384, 0>>, <<16384, 1>>, <<32768, 3>>, <<49152, 5>>, <<49152, 314>>,
     <<57005, 48879>>, <<65535, 65535>>, <<65536, 0>>, <<-32768, 0>>,
     <<-32769, 65535>>}

(* a call of run() with one retry, on either platform, of a command that   *)
(* ends with one exit code                                                 *)
InitDecode ==
    /\ success_given \in {None, ExitCodeList({PyInt(1), PyInt(-9), <<49152, 5>>})}
    /\ max_output_size = 1
    /\ retry = 1
    /\ retry_initial_sleep_seconds = 10
    /\ retry_backoff = 2
    /\ sys_platform \in {"linux", "win32"}
    /\ \E code \in DecodedCodes : exit_codes = {code}
    /\ os_environ = [n \in {"A"} |-> "1"]
    /\ env_overrides = NoOverrides
    /\ InitLocals

(* --------------------------- run(): prologue --------------------------- *)
(* lines 142-159 and 191: defaults are resolved, the backoff starts, the   *)
(* for loop creates its range                                              *)
Run ==
    /\ pc = "call"
    /\ success' = DefaultSuccess(success)
    /\ sleep_seconds' = retry_initial_sleep_seconds
    /\ iter' = range(retry)
    /\ LET built == BuildEnv(sys_platform, os_environ, env_overrides)
       IN  /\ env' = built.env
           /\ os_environ' = built.os_environ
           /\ env_overrides' = built.env_overrides
    /\ pc' = "loop"
    /\ UNCHANGED <<params, child_envs, attempts_left, guarded, output, proc, returncode, exc,
                   caller, messages, printed, full, stream_ended, attempts,
                   outcomes, sleeps, sleep_at, lines_read>>

(* ----------------------- attempt_run(): launch ------------------------- *)
(* What subprocess.Popen() does: start the child, raise an OSError (the    *)
(* executable is missing), or raise a ValueError (an invalid argument).    *)
PopenOutcomes == {"started", "FileNotFoundError", "ValueError"}

(* attempt_run() without its except clause *)
ExceptOSError_absent(e, n) == e

(* except OSError as e: raise RunError(cmd=cmd, result=e) from e; any      *)
(* other exception leaves attempt_run() as it is                           *)
ExceptOSError(e, n) == IF IsOSError(e) THEN RunError(cmd, e, n) ELSE e

(* a description printed once per invocation instead of once per attempt *)
Announce_once(n) == IF n = 1 THEN <<Description>> ELSE << >>

(* print_message(description), line 162, in attempt n *)
Announce(n) == <<Description>>

(* a buffer that is created once and outlives the attempt *)
FreshBuffer_kept(previous) == previous

(* output = '', line 168 *)
FreshBuffer(previous) == << >>

(* The next attempt begins: the for loop yields its next value and calls   *)
(* attempt_run() inside try (line 194), or is exhausted and the final      *)
(* call is made (line 205).  attempt_run() prints the description, clears  *)
(* the buffer and calls Popen (lines 162-170).                             *)
AttemptRun ==
    /\ pc = "loop"
    /\ IF iter # << >>
       THEN /\ attempts_left' = Head(iter)
            /\ iter' = Tail(iter)
            /\ guarded' = TRUE
       ELSE /\ UNCHANGED <<attempts_left, iter>>
            /\ guarded' = FALSE
    /\ attempts' = attempts + 1
    /\ messages' = messages \o Announce(attempts')
    /\ output' = FreshBuffer(output)
    /\ full' = << >>
    /\ printed' = << >>
    /\ stream_ended' = FALSE
    /\ returncode' = << >>
    /\ \E o \in PopenOutcomes :
          IF o = "started"
          THEN /\ proc' = "running"
               /\ child_envs' = child_envs \cup {env}
               /\ pc' = "read"
               /\ UNCHANGED <<exc, outcomes>>
          ELSE /\ proc' = "none"
               /\ UNCHANGED child_envs
               /\ exc' = ExceptOSError(Exception(o, attempts'), attempts')
               /\ outcomes' = Append(outcomes, exc'.type)
               /\ pc' = "except"
    /\ UNCHANGED <<success, params, environment, sleep_seconds, caller, sleeps, sleep_at, lines_read>>

(* ----------------------- attempt_run(): streaming ---------------------- *)
(* what one pass of the body of the read loop can do: print and append the *)
(* line, or raise from print_output (a broken pipe under the line sink),   *)
(* or raise from readline (undecodable bytes)                              *)
LineOutcomes == {"appended", "BrokenPipeError", "UnicodeDecodeError"}

RawLines == TerminatedLines \cup UnterminatedLines

(* lines 173-179: one line is read, stripped, printed and appended *)
ReadLine ==
    /\ pc = "read"
    /\ ~stream_ended
    /\ lines_read < MaxLines
    /\ \E raw \in RawLines :
          LET line == removesuffix(raw)
          IN  /\ printed' = Append(printed, line)
              /\ output' = AppendLine(output, line, max_output_size)
              /\ full' = full \o line \o <<NL>>
              /\ stream_ended' = (raw \in UnterminatedLines)
    /\ lines_read' = lines_read + 1
    /\ UNCHANGED <<success, params, environment, child_envs, pc, loopvars, guarded, proc, returncode, exc,
                   caller, messages, attempts, outcomes, sleeps, sleep_at>>

(* lines 173-175 and 183-184: readline raises, or it returns a line and    *)
(* print_output raises when called with it; nothing is appended, the with  *)
(* statement reaps the child, and the except clause converts an OSError    *)
ReadLineRaises ==
    /\ pc = "read"
    /\ ~stream_ended
    /\ lines_read < MaxLines
    /\ \E cls \in LineOutcomes \ {"appended"} :
          /\ exc' = ExceptOSError(Exception(cls, attempts), attempts)
          /\ outcomes' = Append(outcomes, exc'.type)
          /\ IF cls = "BrokenPipeError"
             THEN \E raw \in RawLines : printed' = Append(printed, removesuffix(raw))
             ELSE UNCHANGED printed
    /\ proc' = "exited"
    /\ pc' = "except"
    /\ lines_read' = lines_read + 1
    /\ UNCHANGED <<success, params, environment, child_envs, loopvars, guarded, output, returncode, caller,
                   messages, full, stream_ended, attempts, sleeps, sleep_at>>

(* lines 181-189: end of stream, proc.wait(), the result is built and      *)
(* classified                                                              *)
ProcExit ==
    /\ pc = "read"
    /\ proc' = "exited"
    /\ \E code \in exit_codes :
          LET result == RunResult(code, removesuffix(output))
          IN  /\ returncode' = <<code>>
              /\ IF IsSuccess(result.exit_code, success)
                 THEN /\ returned' = result
                      /\ outcomes' = Append(outcomes, "RunResult")
                      /\ pc' = "returned"
                      /\ UNCHANGED exc
                 ELSE /\ exc' = RunError(cmd, result, attempts)
                      /\ outcomes' = Append(outcomes, "RunError")
                      /\ pc' = "except"
                      /\ UNCHANGED returned
    /\ UNCHANGED <<success, params, environment, child_envs, loopvars, guarded, output, raised, accessed,
                   messages, printed, full, stream_ended, attempts, sleeps, sleep_at,
                   lines_read>>

(* ------------------------- run(): retry loop --------------------------- *)
(* an except clause that would also enclose the final call *)
ExceptRunError_unguarded(e, g) == e.type = "RunError"

(* an except clause that retries only a command that ran and failed *)
ExceptRunError_completed(e, g) == g /\ e.type = "RunError" /\ completed(e)

(* except RunError as e: matches only inside the loop's try *)
ExceptRunError(e, g) == g /\ e.type = "RunError"

(* a backoff that grows by addition: sleep_seconds += retry_backoff *)
NextSleep_additive(seconds, backoff) == seconds + backoff

(* sleep_seconds *= retry_backoff *)
NextSleep(seconds, backoff) == seconds * backoff

(* lines 195-203: the error and the notice are printed, run() sleeps, the  *)
(* backoff grows, and the loop goes on                                     *)
Retry ==
    /\ pc = "except"
    /\ ExceptRunError(exc, guarded)
    /\ messages' = messages \o <<str(exc), RetryNotice(sleep_seconds, attempts_left)>>
    /\ sleeps' = Append(sleeps, sleep_seconds)
    /\ sleep_at' = Append(sleep_at, Len(messages'))
    /\ sleep_seconds' = NextSleep(sleep_seconds, retry_backoff)
    /\ exc' = NoException
    /\ pc' = "loop"
    /\ UNCHANGED <<success, params, environment, child_envs, iter, attempts_left, guarded, output, proc,
                   returncode, caller, printed, full, stream_ended, attempts, outcomes,
                   lines_read>>

(* what leaves run() when no except clause matches *)
Propagated(e) == e

(* line 205, or an exception that line 195 does not match: it leaves run() *)
Raise ==
    /\ pc = "except"
    /\ ~ExceptRunError(exc, guarded)
    /\ raised' = Propagated(exc)
    /\ pc' = "raised"
    /\ UNCHANGED <<success, params, environment, child_envs, loopvars, guarded, output, proc, returncode, exc,
                   returned, accessed, messages, printed, full, stream_ended,
                   attempts, outcomes, sleeps, sleep_at, lines_read>>

(* ------------------------ the caller and RunError ---------------------- *)
(* lines 56-94: the caller reads every property of the RunError it caught  *)
(* and calls str() on it                                                   *)
Inspect ==
    /\ pc = "raised"
    /\ raised.type = "RunError"
    /\ accessed' = [completed |-> completed(raised),
                    exit_code |-> exit_code(raised),
                    output |-> RunError_output(raised),
                    oserror |-> oserror(raised),
                    message |-> message(raised),
                    str |-> str(raised)]
    /\ pc' = "inspected"
    /\ UNCHANGED <<success, params, environment, child_envs, loopvars, guarded, output, proc, returncode, exc,
                   returned, raised, messages, printed, full, stream_ended,
                   attempts, outcomes, sleeps, sleep_at, lines_read>>

Next ==
    \/ Run
    \/ AttemptRun
    \/ ReadLine
    \/ ReadLineRaises
    \/ ProcExit
    \/ Retry
    \/ Raise
    \/ Inspect

Spec == Init /\ [][Next]_vars

SpecEnv == InitEnv /\ [][Next]_vars

SpecDecode == InitDecode /\ [][Next]_vars

(* ============================ properties =============================== *)
Finished == pc \in {"returned", "raised", "inspected"}

(* every attempt so far ended in a RunError *)
AllFailed == \A k \in DOMAIN outcomes : outcomes[k] = "RunError"

(* every attempt so far ended in a RunResult or in a RunError *)
NoRawException == \A k \in DOMAIN outcomes : outcomes[k] \in {"RunResult", "RunError"}

(* C1: with retry = N >= 0 and every attempt failing with a RunError, run() *)
(* makes exactly N+1 attempts and raises the very RunError object that the *)
(* last attempt produced; with N = 0 there is one attempt and no sleep.    *)
C1_RetryAccounting ==
    (pc \in {"raised", "inspected"} /\ retry >= 0 /\ AllFailed)
        => /\ attempts = retry + 1
           /\ Len(outcomes) = retry + 1
           /\ raised = exc
           /\ raised.type = "RunError"
           /\ raised.id = retry + 1
           /\ (retry = 0 => attempts = 1 /\ sleeps = << >>)

C1_Witness ==
    /\ pc = "raised"
    /\ retry = MaxRetry
    /\ AllFailed
    /\ attempts = MaxRetry + 1
    /\ raised.id = MaxRetry + 1

(* index of the first attempt that returned a RunResult, 0 if there is none *)
FirstSuccess ==
    IF \E k \in DOMAIN outcomes : outcomes[k] = "RunResult"
    THEN CHOOSE k \in DOMAIN outcomes :
            /\ outcomes[k] = "RunResult"
            /\ \A j \in 1..(k - 1) : outcomes[j] # "RunResult"
    ELSE 0

C2_AtReturn ==
    /\ (retry >= 0 => attempts <= retry + 1)
    /\ pc = "returned"
          => /\ Len(outcomes) = attempts
             /\ FirstSuccess = attempts
             /\ returned = RunResult(returncode[1], removesuffix(output))
    /\ (Finished /\ retry >= 0 /\ NoRawException)
          => attempts = IF FirstSuccess # 0 THEN Min(FirstSuccess, retry + 1)
                        ELSE retry + 1

(* C2: run() stops at the first successful attempt: it returns that        *)
(* attempt's RunResult, makes no attempt, sleep or message afterwards, and *)
(* the number of attempts is min(index of the first success, N+1).         *)
C2_StopsAtFirstSuccess ==
    /\ []C2_AtReturn
    /\ [][pc = "returned" => UNCHANGED <<pc, attempts, sleeps, sleep_at, messages, returned>>]_vars

C2_Witness ==
    /\ pc = "returned"
    /\ retry = MaxRetry
    /\ attempts = 2
    /\ outcomes = <<"RunError", "RunResult">>

RECURSIVE Pow(_, _)
Pow(m, k) == IF k = 0 THEN 1 ELSE m * Pow(m, k - 1)

(* C3: the k-th retry sleep lasts s * m^(k-1), where s is the initial      *)
(* backoff and m the multiplier; with s = 10 and m = 2 the sleeps before   *)
(* attempts 2, 3, 4 are 10, 20, 40.                                        *)
C3_BackoffGrowth ==
    /\ \A k \in DOMAIN sleeps :
          sleeps[k] = retry_initial_sleep_seconds * Pow(retry_backoff, k - 1)
    /\ Len(sleeps) <= attempts
    /\ (retry_initial_sleep_seconds = 10 /\ retry_backoff = 2)
          => \A k \in DOMAIN sleeps : k <= 3 => sleeps[k] = <<10, 20, 40>>[k]

C3_Witness ==
    /\ sleeps = <<10, 20, 40>>
    /\ attempts = 4

(* t is a contiguous suffix of s *)
IsSuffix(t, s) ==
    /\ Len(t) <= Len(s)
    /\ t = SubSeq(s, Len(s) - Len(t) + 1, Len(s))

(* C4: at every point of an attempt the buffer holds at most               *)
(* max_output_size + 1 characters and is a contiguous suffix of the        *)
(* concatenation of all the lines appended so far, each with its newline.  *)
C4_BoundedBuffer ==
    /\ Len(output) <= max_output_size + 1
    /\ IsSuffix(output, full)
    /\ (Len(full) <= max_output_size + 1 => output = full)

C4_Witness ==
    /\ pc = "read"
    /\ max_output_size = 2
    /\ Len(full) = 4
    /\ Len(output) = 3
    /\ output # SubSeq(full, 1, 3)

(* the lines joined by newlines *)
RECURSIVE Join(_)
Join(ls) ==
    IF ls = << >> THEN << >>
    ELSE IF Len(ls) = 1 THEN ls[1]
    ELSE ls[1] \o <<NL>> \o Join(Tail(ls))

(* the last n characters of s, all of s if it is shorter *)
LastChars(s, n) == SubSeq(s, Max(Len(s) - n, 0) + 1, Len(s))

(* an attempt has read the stream to its end and built its RunResult *)
Completed == returncode # << >>

(* the RunResult that attempt built, returned or carried by the RunError *)
Recorded == IF pc = "returned" THEN returned ELSE exc.result

(* C5: the output recorded for an attempt has at most max_output_size      *)
(* characters: the last max_output_size characters of the lines joined by  *)
(* newlines if that text is longer, the whole joined text otherwise.       *)
C5_RecordedOutput ==
    (Completed /\ pc \in {"returned", "except"})
        => /\ Len(Recorded.output) <= max_output_size
           /\ Recorded.output = LastChars(Join(printed), max_output_size)
           /\ (Len(Join(printed)) <= max_output_size
                  => Recorded.output = Join(printed))
           /\ Recorded.output = removesuffix(output)

C5_Witness ==
    /\ pc = "returned"
    /\ max_output_size = 2
    /\ printed = <<<<"a">>, <<"b">>>>
    /\ returned.output = <<NL, "b">>

(* C6: under AnyExitCode the attempt returns a RunResult with the child's  *)
(* exit code C; under a list S it returns one iff C is in S and otherwise  *)
(* raises the RunError that carries C and the retained output.             *)
C6_Classification ==
    (Completed /\ pc \in {"returned", "except"})
        => LET C == returncode[1]
           IN  /\ Recorded.type = "RunResult"
               /\ Recorded.exit_code = C
               /\ Recorded.output = removesuffix(output)
               /\ success.kind = "AnyExitCode" => pc = "returned"
               /\ success.kind = "list" => (pc = "returned" <=> C \in success.codes)
               /\ pc = "except" => exc.type = "RunError" /\ completed(exc)

C6_Witness ==
    /\ pc = "except"
    /\ Completed
    /\ success = ExitCodeList({PyInt(0)})
    /\ exc.type = "RunError"
    /\ exc.result = RunResult(PyInt(1), <<"a">>)

(* C7: without a success argument the policy is exactly [0]; 0 is never    *)
(* added to a list the caller gave: with [1] an exit code of 0 raises the  *)
(* RunError that carries exit code 0.                                      *)
C7_DefaultPolicy ==
    /\ (pc # "call" /\ success_given = None) => success = ExitCodeList({PyInt(0)})
    /\ (pc # "call" /\ success_given # None) => success = success_given
    /\ (Completed /\ pc \in {"returned", "except"} /\ success_given = None)
          => (pc = "returned" <=> returncode[1] = PyInt(0))
    /\ (Completed /\ pc \in {"returned", "except"}
           /\ success_given.kind = "list" /\ PyInt(0) \notin success_given.codes
           /\ returncode[1] = PyInt(0))
          => /\ pc = "except"
             /\ exc.type = "RunError"
             /\ exit_code(exc) = [raises |-> "", value |-> PyInt(0)]

C7_Witness ==
    /\ pc = "except"
    /\ success_given = ExitCodeList({PyInt(1)})
    /\ returncode = <<PyInt(0)>>
    /\ exc.type = "RunError"
    /\ exc.result.exit_code = PyInt(0)

(* C8 as stated: RunError is the only exception type that leaves an        *)
(* attempt, and so the only one that leaves run().                         *)
C8_OnlyRunErrorEscapes ==
    /\ pc = "except" => exc.type = "RunError"
    /\ pc \in {"raised", "inspected"} => raised.type = "RunError"

(* C8, amended: an OSError raised by Popen or while the child's output is  *)
(* streamed never leaves the attempt raw, it is carried by a RunError with *)
(* completed = False; an exception of another class raised there leaves    *)
(* the attempt and run() unchanged.                                        *)
C8_OSErrorConverted ==
    /\ pc = "except"
          => /\ ~IsOSError(exc)
             /\ exc.type \in {"RunError", "ValueError", "UnicodeDecodeError"}
             /\ exc.id = attempts
             /\ (exc.type = "RunError" /\ ~completed(exc))
                   => IsOSError(exc.result) /\ exc.result.id = attempts
    /\ pc \in {"raised", "inspected"}
          => /\ ~IsOSError(raised)
             /\ raised = exc
             /\ outcomes[Len(outcomes)] = raised.type

C8_Witness ==
    /\ pc = "raised"
    /\ raised.type = "RunError"
    /\ raised.result.type = "FileNotFoundError"
    /\ proc = "none"

(* C9 as stated: a RunError with completed = False is raised only when the *)
(* child was never started; once the child has been launched, the RunError *)
(* of that attempt has completed = True.                                   *)
C9_LaunchFailedOnlyBeforeStart ==
    /\ (pc = "except" /\ exc.type = "RunError" /\ ~completed(exc)) => proc = "none"
    /\ (pc = "except" /\ exc.type = "RunError" /\ proc # "none") => completed(exc)

(* C10: on a RunError with completed = False, exit_code and output raise   *)
(* ValueError and oserror returns the stored OSError; with completed =     *)
(* True, oserror raises ValueError and exit_code and output return the     *)
(* stored values.                                                          *)
C10_WrongVariantAccess ==
    pc = "inspected"
        => /\ accessed.completed = (raised.result.type = "RunResult")
           /\ accessed.completed
                 => /\ accessed.exit_code.raises = ""
                    /\ accessed.exit_code.value = raised.result.exit_code
                    /\ accessed.output.raises = ""
                    /\ accessed.output.value = raised.result.output
                    /\ accessed.oserror.raises = ValueError
           /\ ~accessed.completed
                 => /\ accessed.exit_code.raises = ValueError
                    /\ accessed.output.raises = ValueError
                    /\ accessed.oserror.raises = ""
                    /\ accessed.oserror.value = raised.result
                    /\ accessed.oserror.value.type \in OSErrorClasses

C10_Witness ==
    /\ pc = "inspected"
    /\ ~accessed.completed
    /\ accessed.exit_code.raises = ValueError
    /\ accessed.oserror.value.type = "FileNotFoundError"

(* the messages printed so far that tell of a failed attempt *)
ErrorMessages ==
    SelectSeq(messages, LAMBDA m : m.kind \in {"Command failed with exit code",
                               "Exception was raised while trying to run command"})

(* the retry notices printed so far *)
Notices == SelectSeq(messages, LAMBDA m : m.kind = "Retrying in")

(* no attempt so far could launch the command *)
NeverLaunched ==
    /\ AllFailed
    /\ \A k \in DOMAIN ErrorMessages :
          /\ ErrorMessages[k].kind = "Exception was raised while trying to run command"
          /\ ErrorMessages[k].exception = "FileNotFoundError"
    /\ pc \in {"except", "raised", "inspected"}
          => exc.type = "RunError" /\ exc.result.type = "FileNotFoundError"

(* C11: a launch failure is retried like an exit-code failure: with retry  *)
(* = N >= 0 and a command that can never be launched there are N+1 launch  *)
(* attempts, N retry notices and backoff sleeps, and the RunError of the   *)
(* last attempt, with completed = False, is raised.                        *)
C11_LaunchFailureRetried ==
    (pc \in {"raised", "inspected"} /\ retry >= 0 /\ NeverLaunched)
        => /\ attempts = retry + 1
           /\ Len(ErrorMessages) = retry
           /\ Len(Notices) = retry
           /\ Len(sleeps) = retry
           /\ \A k \in 1..retry :
                 /\ sleeps[k] = retry_initial_sleep_seconds * Pow(retry_backoff, k - 1)
                 /\ Notices[k].seconds = sleeps[k]
                 /\ Notices[k].attempts_left = retry + 1 - k
           /\ raised.type = "RunError"
           /\ ~completed(raised)
           /\ raised.result = Exception("FileNotFoundError", retry + 1)
           /\ proc = "none"

C11_Witness ==
    /\ pc = "raised"
    /\ retry = 2
    /\ NeverLaunched
    /\ attempts = 3
    /\ Len(sleeps) = 2
    /\ raised.result.type = "FileNotFoundError"

(* the number of descriptions printed so far *)
Descriptions == Len(SelectSeq(messages, LAMBDA m : m = Description))

C12_OncePerAttempt ==
    /\ Descriptions = attempts
    /\ proc = "running" => messages[Len(messages)] = Description
    /\ pc \in {"read", "except", "returned", "raised", "inspected"}
          => /\ Len(messages) = 3 * (attempts - 1) + 1
             /\ messages[Len(messages)] = Description

(* C12: in every attempt, retries included, the description is printed     *)
(* exactly once, before the child is launched and before print_output is   *)
(* called for any line of that attempt.                                    *)
C12_DescriptionFirst ==
    /\ []C12_OncePerAttempt
    /\ [][(printed' # printed /\ printed' # << >>)
            => /\ messages' = messages
               /\ messages[Len(messages)] = Description
               /\ Descriptions = attempts
               /\ attempts' = attempts]_vars
    /\ [][(proc' = "running" /\ proc # "running")
            => /\ messages' = Append(messages, Description)
               /\ printed' = << >>]_vars

C12_Witness ==
    /\ attempts = 2
    /\ pc = "read"
    /\ printed # << >>
    /\ Descriptions = 2

(* every line followed by a newline *)
RECURSIVE JoinNL(_)
JoinNL(ls) == IF ls = << >> THEN << >> ELSE ls[1] \o <<NL>> \o JoinNL(Tail(ls))

(* the lines the child can emit, without their newline *)
EmittedLines ==
    {SubSeq(r, 1, Len(r) - 1) : r \in TerminatedLines} \cup UnterminatedLines

C13_SinkCalls ==
    /\ \A k \in DOMAIN printed :
          /\ printed[k] \in EmittedLines
          /\ \A i \in DOMAIN printed[k] : printed[k][i] # NL
    /\ stream_ended => printed[Len(printed)] \in UnterminatedLines
    /\ (pc \in {"read", "returned"} \/ (pc = "except" /\ Completed))
          => full = JoinNL(printed)
    /\ (pc = "except" /\ exc.type = "RunError" /\ exc.result.type = "BrokenPipeError")
          => /\ printed # << >>
             /\ full = JoinNL(SubSeq(printed, 1, Len(printed) - 1))
    /\ (pc \in {"returned", "except"} /\ Completed
           /\ Len(Join(printed)) <= max_output_size)
          => Recorded.output = Join(printed)

(* C13: print_output is called exactly once for every line the child       *)
(* emits, with the newline stripped, in the order of emission and before   *)
(* the line is appended; truncation does not touch what it received; when  *)
(* the output fits, the recorded output is the lines joined by newlines.   *)
C13_LineSink ==
    /\ []C13_SinkCalls
    /\ [][(pc = "read" /\ lines_read' # lines_read)
            => \/ /\ Len(printed') = Len(printed) + 1
                  /\ SubSeq(printed', 1, Len(printed)) = printed
                  /\ pc' = "read" => full' = full \o printed'[Len(printed')] \o <<NL>>
                  /\ pc' # "read" => full' = full
               \/ /\ printed' = printed
                  /\ exc'.type = "UnicodeDecodeError"]_vars
    /\ [][(pc = "read" /\ lines_read' = lines_read) => printed' = printed]_vars

C13_Witness ==
    /\ pc = "returned"
    /\ printed = <<<<"a">>, <<"b">>>>
    /\ max_output_size = 3
    /\ returned = RunResult(PyInt(0), <<"a", NL, "b">>)

(* the message str(e) of a RunError, written out *)
ExpectedErrorMessage(e, m) ==
    IF e.result.type = "RunResult"
    THEN /\ m.kind = "Command failed with exit code"
         /\ m.exit_code = e.result.exit_code
         /\ m.cmd = oslex_join(cmd)
    ELSE /\ m.kind = "Exception was raised while trying to run command"
         /\ m.exception = e.result.type
         /\ m.cmd = oslex_join(cmd)

C14_Log ==
    /\ Len(sleep_at) = Len(sleeps)
    /\ \A k \in DOMAIN sleeps :
          LET notice == messages[3 * k]
              count == retry + 1 - k
          IN  /\ messages[3 * k - 2] = Description
              /\ messages[3 * k - 1].kind \in
                    {"Command failed with exit code",
                     "Exception was raised while trying to run command"}
              /\ notice.kind = "Retrying in"
              /\ notice.seconds = sleeps[k]
              /\ notice.attempts_left = count
              /\ count >= 1
              /\ notice.plural = (IF count = 1 THEN "" ELSE "s")
              /\ sleep_at[k] = 3 * k
              /\ Len(messages) > 3 * k => messages[3 * k + 1] = Description
              /\ (Finished /\ AllFailed) => attempts - k = count
              /\ attempts - k <= count
    /\ Len(messages) <= 3 * Len(sleeps) + 1
    /\ pc \in {"raised", "inspected"}
          => /\ Len(messages) = 3 * Len(sleeps) + 1
             /\ messages[Len(messages)] = Description

(* C14: after a failed attempt that is not the last, print_message gets    *)
(* the error's message, then a notice with the sleep duration and the      *)
(* number of attempts still to be made ('attempt' for one, 'attempts'      *)
(* otherwise), then run() sleeps, all before the next description; the     *)
(* failure of the last attempt prints nothing.                             *)
C14_RetryMessages ==
    /\ []C14_Log
    /\ [][(messages' # messages /\ pc = "except")
            => /\ Len(messages') = Len(messages) + 2
               /\ SubSeq(messages', 1, Len(messages)) = messages
               /\ ExpectedErrorMessage(exc, messages'[Len(messages) + 1])
               /\ messages'[Len(messages) + 2].kind = "Retrying in"
               /\ sleeps' = Append(sleeps, messages'[Len(messages) + 2].seconds)
               /\ attempts < retry + 1]_vars
    /\ [][(pc = "except" /\ pc' = "raised") => messages' = messages /\ sleeps' = sleeps]_vars

C14_Witness ==
    /\ Len(sleeps) = 3
    /\ messages[3].plural = "s"
    /\ messages[3].attempts_left = 3
    /\ messages[9].plural = ""
    /\ messages[9].attempts_left = 1
    /\ messages[8].kind = "Command failed with exit code"
    /\ pc = "raised"

C19_OwnLinesOnly ==
    /\ Len(output) <= Len(JoinNL(printed))
    /\ pc \in {"read", "returned"} => IsSuffix(output, JoinNL(printed))
    /\ printed = << >> => output = << >>
    /\ (pc \in {"returned", "except"} /\ Completed)
          => /\ IsSuffix(Recorded.output, Join(printed))
             /\ printed = << >> => Recorded.output = << >>
    /\ (pc \in {"raised", "inspected"} /\ raised.type = "RunError" /\ completed(raised))
          => IsSuffix(raised.result.output, Join(printed))

(* C19: the retained output is per attempt: every attempt starts with an   *)
(* empty buffer, and the output of the returned RunResult or of the raised *)
(* RunError holds only lines of that same attempt.                         *)
C19_OutputPerAttempt ==
    /\ []C19_OwnLinesOnly
    /\ [][attempts' # attempts => output' = << >> /\ printed' = << >>]_vars

C19_Witness ==
    /\ attempts = 2
    /\ lines_read = 1
    /\ printed = << >>
    /\ messages[2].kind = "Command failed with exit code"
    /\ pc = "returned"
    /\ returned.output = << >>

C20_Counts ==
    /\ pc = "call" => attempts = 0 /\ sleeps = << >>
    /\ pc = "loop" => Len(sleeps) = attempts
    /\ (pc = "loop" /\ attempts > 0) => outcomes[attempts] = "RunError"
    /\ pc \in {"read", "except", "returned", "raised", "inspected"}
          => Len(sleeps) = attempts - 1
    /\ Len(sleeps) <= Max(retry, 0)
    /\ Len(Notices) = Len(sleeps)
    /\ \A k \in DOMAIN sleeps :
          /\ Notices[k].seconds = sleeps[k]
          /\ messages[sleep_at[k]] = Notices[k]
    /\ retry <= 0 => attempts <= 1 /\ sleeps = << >>
    /\ (Finished /\ retry <= 0) => attempts = 1

(* C20: an invocation sleeps once less than it makes attempts; it sleeps   *)
(* only between a failed attempt and the attempt that follows, never       *)
(* before the first attempt, after a success or after the last attempt;    *)
(* each sleep lasts what the notice just before it announced; a retry      *)
(* count <= 0 gives exactly one attempt.                                   *)
C20_SleepsBetweenAttempts ==
    /\ []C20_Counts
    /\ [][sleeps' # sleeps
            => /\ pc = "except" /\ pc' = "loop"
               /\ attempts >= 1 /\ attempts <= retry
               /\ Len(outcomes) = attempts
               /\ outcomes[attempts] = "RunError"
               /\ Len(sleeps') = Len(sleeps) + 1
               /\ sleeps'[Len(sleeps')] = messages'[Len(messages')].seconds
               /\ sleeps'[Len(sleeps')] = sleep_seconds]_vars
    /\ [][pc = "loop" => attempts' = attempts + 1 /\ sleeps' = sleeps]_vars

C20_Witness ==
    /\ pc = "returned"
    /\ attempts = 3
    /\ Len(sleeps) = 2
    /\ retry = MaxRetry

(* the overrides as the child must see them: the value of the last item    *)
(* whose name is n, names being compared without case on win32             *)
OverrideName(key) == IF sys_platform = "win32" THEN upper(key) ELSE key

Overridden(n) ==
    /\ env_overrides.given
    /\ \E i \in DOMAIN env_overrides.items : OverrideName(env_overrides.items[i][1]) = n

LastOverride(n) ==
    LET last == CHOOSE i \in DOMAIN env_overrides.items :
                  /\ OverrideName(env_overrides.items[i][1]) = n
                  /\ \A j \in DOMAIN env_overrides.items :
                        OverrideName(env_overrides.items[j][1]) = n => j <= i
    IN  env_overrides.items[last][2]

ExpectedEnvNames ==
    DOMAIN os_environ \cup {n \in {"A", "a"} : Overridden(n)}

C15_ChildEnv ==
    \A e \in child_envs :
        /\ DOMAIN e = ExpectedEnvNames
        /\ \A n \in ExpectedEnvNames :
              e[n] = IF Overridden(n) THEN LastOverride(n) ELSE os_environ[n]

(* C15: every attempt of an invocation runs the child with the same        *)
(* environment, the inherited one with the overrides on top (an override   *)
(* wins over an inherited variable of the same name); building it changes  *)
(* neither os.environ nor the caller's mapping.                            *)
C15_Environment ==
    /\ [](Cardinality(child_envs) <= 1)
    /\ []C15_ChildEnv
    /\ [][os_environ' = os_environ /\ env_overrides' = env_overrides]_vars
    /\ [][pc # "call" => env' = env]_vars

C15_Witness ==
    /\ attempts = 2
    /\ proc = "running"
    /\ sys_platform = "win32"
    /\ os_environ = [n \in {"A"} |-> "1"]
    /\ env_overrides = Overrides(<<<<"a", "2">>>>)
    /\ child_envs = {[n \in {"A"} |-> "2"]}
    /\ messages[2].kind = "Command failed with exit code"

(* ---------------- C16 - C18: decoding and the message ------------------ *)
(* the messages about a command that ran and failed which have been shown  *)
(* so far: printed before a retry, or read by the caller                   *)
ShownCompleted ==
    {messages[i] : i \in {j \in DOMAIN messages :
                             messages[j].kind = "Command failed with exit code"}}
    \cup (IF pc = "inspected" /\ accessed.completed THEN {accessed.message} ELSE {})

(* the label inside the parentheses of a message, << >> when it has none *)
Label(m) ==
    IF m.comment = << >> THEN << >> ELSE SubSeq(m.comment, 2, Len(m.comment) - 1)

(* the numbers signal.Signals has a member for *)
KnownSignals == (1..31) \cup {34, 64}

(* C16: on POSIX the label of an exit code c < 0 is the name of signal -c  *)
(* when -c is a known signal (SIGKILL for -9) and 'unknown signal'         *)
(* otherwise, and an exit code c >= 0 has no label; on every platform an   *)
(* exit code is a success exactly when the policy says so, whatever label  *)
(* it has.                                                                 *)
C16_PosixDecoding ==
    /\ sys_platform = "linux"
          => \A m \in ShownCompleted :
                LET c == m.exit_code
                    small == c[1] = -1 /\ c[2] > 0
                    n == 65536 - c[2]
                IN  /\ (c[1] < 0 /\ small /\ n \in KnownSignals)
                          => /\ Label(m) = <<SignalName(<<0, n>>)>>
                             /\ Label(m) \notin {<<"">>, <<"unknown signal">>}
                    /\ (c[1] < 0 /\ ~(small /\ n \in KnownSignals))
                          => Label(m) = <<"unknown signal">>
                    /\ c[1] >= 0 => m.comment = << >>
                    /\ c = PyInt(-9) => Label(m) = <<"SIGKILL">>
    /\ (Completed /\ pc \in {"returned", "except"})
          => (pc = "returned"
                 <=> (success.kind = "AnyExitCode" \/ returncode[1] \in success.codes))

C16_Witness ==
    /\ sys_platform = "linux"
    /\ pc = "inspected"
    /\ accessed.completed
    /\ raised.result.exit_code = PyInt(-9)
    /\ accessed.message.comment = <<" (", "SIGKILL", ")">>
    /\ messages[2] = accessed.message

(* the number a text of hexadecimal digits stands for *)
RECURSIVE HexValue(_)
HexValue(digits) ==
    IF digits = << >> THEN 0
    ELSE 16 * HexValue(SubSeq(digits, 1, Len(digits) - 1))
         + (CHOOSE v \in 0..15 : HexDigits[v + 1] = digits[Len(digits)])

(* C17: on win32 an exit code outside of 32 bits has no label; a word that *)
(* the status table has with a severity other than success is labelled by  *)
(* its name; every other word is labelled '0x' and the 8 upper-case        *)
(* hexadecimal digits of the unsigned word.                                *)
C17_Win32Decoding ==
    sys_platform = "win32"
        => \A m \in ShownCompleted :
              LET c == m.exit_code
                  fits == -32768 <= c[1] /\ c[1] <= 65535
                  u == <<c[1] % 65536, c[2]>>
                  named == NtStatusName(u) # "" /\ u[1] >= 16384
                  label == Label(m)
              IN  /\ ~fits => m.comment = << >>
                  /\ (fits /\ named) => label = <<NtStatusName(u)>>
                  /\ (fits /\ ~named)
                        => /\ Len(label) = 9
                           /\ label[1] = "0x"
                           /\ \A k \in 2..9 : \E v \in 1..16 : label[k] = HexDigits[v]
                           /\ HexValue(SubSeq(label, 2, 5)) = u[1]
                           /\ HexValue(SubSeq(label, 6, 9)) = u[2]

C17_Witness ==
    /\ sys_platform = "win32"
    /\ pc = "inspected"
    /\ accessed.completed
    /\ raised.result.exit_code = PyInt(-9)
    /\ accessed.message.comment
          = <<" (", "0x", "F", "F", "F", "F", "F", "F", "F", "7", ")">>

(* the message of RunError e is m *)
C18_Format(e, m) ==
    IF e.result.type = "RunResult"
    THEN LET label == stringify_exit_code(e.result.exit_code)
         IN  /\ m.kind = "Command failed with exit code"
             /\ m.exit_code = e.result.exit_code
             /\ label # << >> => m.comment = <<" (">> \o label \o <<")">>
             /\ label = << >> => m.comment = << >>
             /\ m.cmd = oslex_join(e.cmd)
             /\ m.cmd # << >>
    ELSE /\ m.kind = "Exception was raised while trying to run command"
         /\ m.exception = e.result.type
         /\ m.text = OSErrorText(e.result)
         /\ m.cmd = oslex_join(e.cmd)
         /\ m.cmd # << >>

(* C18: the message of a RunError of a completed command is 'Command       *)
(* failed with exit code N', then ' (label)' exactly when the decoder      *)
(* gives a label, then the quoted command; that of a failed launch names   *)
(* the type and the message of the cause and the quoted command; str() of  *)
(* the error is this message, for the caller and before a retry.           *)
C18_MessageFormat ==
    /\ [](pc = "inspected"
             => /\ C18_Format(raised, accessed.message)
                /\ accessed.str = accessed.message)
    /\ [][(pc = "except" /\ pc' = "loop")
             => C18_Format(exc, messages'[Len(messages) + 1])]_vars

C18_Witness ==
    /\ sys_platform = "linux"
    /\ pc = "inspected"
    /\ messages[2] = [kind |-> "Command failed with exit code",
                      exit_code |-> PyInt(1),
                      comment |-> << >>,
                      cmd |-> <<"prog", " ", "'", "an arg", "'">>]
    /\ accessed.str = [kind |-> "Exception was raised while trying to run command",
                       exception |-> "FileNotFoundError",
                       text |-> "[Errno 2] No such file or directory",
                       cmd |-> <<"prog", " ", "'", "an arg", "'">>]
====
